---- MODULE Spec2Model ----
(***************************************************************************)
(* TAT monitoring engine of the valmo-ops browser extension.               *)
(*                                                                         *)
(*   TATTrackerBackground  (tat-tracker-background.js)  polling scheduler, *)
(*                          history reconciliation, snapshot store         *)
(*   TATAnalytics          (tat-analytics.js)           disposition log    *)
(*                                                                         *)
(* JavaScript runs one synchronous segment at a time; a segment ends at an *)
(* await.  Every action below is one such segment: the code from the       *)
(* resumption of an await (or from a call made by the page or a timer) up  *)
(* to the next await.                                                      *)
(*                                                                         *)
(* Time.  Instants are integers counted in units of 90 seconds, so that    *)
(* one hour is UnitsPerHour = 40 units and a tenth of an hour is 4 units.  *)
(* The stored hour fields (elapsedHours, remainingHours, tatHours of a     *)
(* disposition) are kept in tenths of an hour, which is the precision      *)
(* Math.round(x * 10) / 10 leaves.                                          *)
(***************************************************************************)
EXTENDS Integers, Sequences, FiniteSets, TLC

VARIABLES
    isTracking,     \* TATTrackerBackground.isTracking
    intervalId,     \* TATTrackerBackground.intervalId (0 is null)
    timers,         \* ids of the interval timers that are set and not cleared
    cyc,            \* the invocations of fetchAndProcessTickets, by slot
    tatTickets,     \* chrome.storage.local 'tatTickets'
    dashboard,      \* chrome.storage.local 'trackedTickets' and 'tatStats'
    badge,          \* the last UPDATE_BADGE message sent, as a sequence
    tatHistory,     \* chrome.storage.local 'tatHistory'
    disp,           \* the invocations of recordDisposition, by slot
    contextValid,   \* chrome.runtime.id is present
    now,            \* Date.now()
    detachSeen,     \* history: a poll cycle has called stop() on detachment
    lastWritten,    \* history: per ticket, the record of the last completed store
    nStored,        \* history: number of completed storeHistoricalRecord calls
    probe           \* the last call of a pure function: its arguments and result

vars == <<isTracking, intervalId, timers, cyc, tatTickets, dashboard, badge,
          tatHistory, disp, contextValid, now, detachSeen, lastWritten, nStored,
          probe>>

----------------------------------------------------------------------------
(* Bounds of the model *)

MaxCycles == 2
MaxTimers == 2
MaxDisp == 2
MaxDispCalls == 2

Cycles == 1..MaxCycles
DispSlots == 1..MaxDisp

UnitsPerHour == 40

None == <<>>
Some(x) == <<x>>

----------------------------------------------------------------------------
(* Strings that the code searches are sequences of one-character strings. *)

UpperCase == <<"A","B","C","D","E","F","G","H","I","J","K","L","M",
               "N","O","P","Q","R","S","T","U","V","W","X","Y","Z">>
LowerCase == <<"a","b","c","d","e","f","g","h","i","j","k","l","m",
               "n","o","p","q","r","s","t","u","v","w","x","y","z">>

toLowerChar(ch) ==
    IF \E i \in 1..26 : UpperCase[i] = ch
    THEN LowerCase[CHOOSE i \in 1..26 : UpperCase[i] = ch]
    ELSE ch

toLowerCase(s) == [i \in 1..Len(s) |-> toLowerChar(s[i])]

includes(s, kw) ==
    \E i \in 0..(Len(s) - Len(kw)) :
        \A j \in 1..Len(kw) : s[i + j] = kw[j]

(* The keywords of matchSOPCategory, as character sequences *)

kw_shortage == <<"s","h","o","r","t","a","g","e">>
kw_loss == <<"l","o","s","s">>
kw_debit == <<"d","e","b","i","t">>
kw_hardstop == <<"h","a","r","d","s","t","o","p">>
kw_payment == <<"p","a","y","m","e","n","t">>
kw_invoice == <<"i","n","v","o","i","c","e">>
kw_payout == <<"p","a","y","o","u","t">>
kw_gst == <<"g","s","t">>
kw_not_received == <<"n","o","t"," ","r","e","c","e","i","v","e","d">>
kw_pending == <<"p","e","n","d","i","n","g">>
kw_cod == <<"c","o","d">>
kw_deposit == <<"d","e","p","o","s","i","t">>
kw_cash == <<"c","a","s","h">>
kw_load == <<"l","o","a","d">>
kw_volume == <<"v","o","l","u","m","e">>
kw_manifest == <<"m","a","n","i","f","e","s","t">>
kw_cms == <<"c","m","s">>
kw_log10 == <<"l","o","g","1","0">>
kw_system == <<"s","y","s","t","e","m">>

(* The further keywords of TicketTracker.matchSOPCategory *)

kw_shipment == <<"s","h","i","p","m","e","n","t">>
kw_short == <<"s","h","o","r","t">>
kw_missing == <<"m","i","s","s","i","n","g">>
kw_pending_sign == <<"p","e","n","d","i","n","g"," ","s","i","g","n">>
kw_pendency == <<"p","e","n","d","e","n","c","y">>
kw_planning == <<"p","l","a","n","n","i","n","g">>
kw_tool == <<"t","o","o","l">>
kw_bagging == <<"b","a","g","g","i","n","g">>
kw_inactive == <<"i","n","a","c","t","i","v","e">>

(* Words without a keyword, and a keyword in capitals *)

wd_hello == <<"h","e","l","l","o">>
wd_Refund == <<"R","e","f","u","n","d">>
wd_COD == <<"C","O","D">>

(* Subjects of the tickets of the model *)

subjShortage == <<"S","h","o","r","t","a","g","e"," ","l","o","s","s"," ","n","o","t"," ","c","r","e","d","i","t","e","d">>
subjPayment == <<"P","a","y","m","e","n","t"," ","p","e","n","d","i","n","g">>

----------------------------------------------------------------------------
(* Pure functions of TATTrackerBackground *)

\* A value a function returns, or the exception it throws
Ok(v) == [ok |-> TRUE, val |-> v]
Thrown == [ok |-> FALSE, val |-> 0]

\* a classifier without the fallback: a subject that is missing or matches no
\* rule gets no category and no SLA
matchSOPCategory_noFallback(subject) ==
    IF subject = None \/ subject[1] = <<>>
    THEN [category |-> "", tat |-> 0]
    ELSE LET lower == toLowerCase(subject[1]) IN
         IF includes(lower, kw_shortage) \/ includes(lower, kw_loss)
            \/ includes(lower, kw_debit) \/ includes(lower, kw_hardstop)
         THEN [category |-> "Losses & Debits", tat |-> 72]
         ELSE IF includes(lower, kw_payment) \/ includes(lower, kw_invoice)
                 \/ includes(lower, kw_payout) \/ includes(lower, kw_gst)
         THEN IF includes(lower, kw_not_received) \/ includes(lower, kw_pending)
              THEN [category |-> "Payments", tat |-> 12]
              ELSE [category |-> "Payments", tat |-> 72]
         ELSE IF includes(lower, kw_cod) \/ includes(lower, kw_deposit)
                 \/ includes(lower, kw_cash)
         THEN [category |-> "COD", tat |-> 24]
         ELSE IF includes(lower, kw_load) \/ includes(lower, kw_volume)
                 \/ includes(lower, kw_manifest)
         THEN [category |-> "Orders & Planning", tat |-> 12]
         ELSE IF includes(lower, kw_cms) \/ includes(lower, kw_log10)
                 \/ includes(lower, kw_system)
         THEN [category |-> "Tech Issues", tat |-> 24]
         ELSE [category |-> "", tat |-> 0]

\* subject is None (no taskTitle) or Some(characters)
matchSOPCategory(subject) ==
    IF subject = None \/ subject[1] = <<>>
    THEN [category |-> "General", tat |-> 48]
    ELSE LET lower == toLowerCase(subject[1]) IN
         IF includes(lower, kw_shortage) \/ includes(lower, kw_loss)
            \/ includes(lower, kw_debit) \/ includes(lower, kw_hardstop)
         THEN [category |-> "Losses & Debits", tat |-> 72]
         ELSE IF includes(lower, kw_payment) \/ includes(lower, kw_invoice)
                 \/ includes(lower, kw_payout) \/ includes(lower, kw_gst)
         THEN IF includes(lower, kw_not_received) \/ includes(lower, kw_pending)
              THEN [category |-> "Payments", tat |-> 12]
              ELSE [category |-> "Payments", tat |-> 72]
         ELSE IF includes(lower, kw_cod) \/ includes(lower, kw_deposit)
                 \/ includes(lower, kw_cash)
         THEN [category |-> "COD", tat |-> 24]
         ELSE IF includes(lower, kw_load) \/ includes(lower, kw_volume)
                 \/ includes(lower, kw_manifest)
         THEN [category |-> "Orders & Planning", tat |-> 12]
         ELSE IF includes(lower, kw_cms) \/ includes(lower, kw_log10)
                 \/ includes(lower, kw_system)
         THEN [category |-> "Tech Issues", tat |-> 24]
         ELSE [category |-> "General", tat |-> 48]

\* matchSOPCategory of TicketTracker (ticket-tracker.js); && binds tighter
\* than ||
TicketTracker_matchSOPCategory(subject) ==
    IF subject = None \/ subject[1] = <<>>
    THEN [category |-> "General", tat |-> 48]
    ELSE LET lower == toLowerCase(subject[1]) IN
         IF includes(lower, kw_shortage) \/ includes(lower, kw_loss)
            \/ includes(lower, kw_debit) \/ includes(lower, kw_hardstop)
            \/ (includes(lower, kw_shipment)
                /\ (includes(lower, kw_short) \/ includes(lower, kw_missing)))
         THEN [category |-> "Losses & Debits", tat |-> 72]
         ELSE IF includes(lower, kw_payment) \/ includes(lower, kw_invoice)
                 \/ includes(lower, kw_payout) \/ includes(lower, kw_gst)
                 \/ includes(lower, kw_pending_sign)
         THEN IF includes(lower, kw_not_received) \/ includes(lower, kw_pending)
              THEN [category |-> "Payments", tat |-> 12]
              ELSE [category |-> "Payments", tat |-> 72]
         ELSE IF includes(lower, kw_cod) \/ includes(lower, kw_deposit)
                 \/ includes(lower, kw_cash) \/ includes(lower, kw_pendency)
         THEN [category |-> "COD", tat |-> 24]
         ELSE IF includes(lower, kw_load) \/ includes(lower, kw_volume)
                 \/ includes(lower, kw_manifest) \/ includes(lower, kw_planning)
         THEN [category |-> "Orders & Planning", tat |-> 12]
         ELSE IF includes(lower, kw_cms) \/ includes(lower, kw_log10)
                 \/ includes(lower, kw_system) \/ includes(lower, kw_tool)
                 \/ includes(lower, kw_bagging) \/ includes(lower, kw_inactive)
         THEN [category |-> "Tech Issues", tat |-> 24]
         ELSE [category |-> "General", tat |-> 48]

\* matchSOPCategory of the service worker (background.js)
background_matchSOPCategory(subject) ==
    IF subject = None \/ subject[1] = <<>>
    THEN [category |-> "General", tat |-> 48]
    ELSE LET lower == toLowerCase(subject[1]) IN
         IF includes(lower, kw_shortage) \/ includes(lower, kw_loss)
            \/ includes(lower, kw_debit) \/ includes(lower, kw_hardstop)
         THEN [category |-> "Losses & Debits", tat |-> 72]
         ELSE IF includes(lower, kw_payment) \/ includes(lower, kw_invoice)
                 \/ includes(lower, kw_payout) \/ includes(lower, kw_gst)
         THEN IF includes(lower, kw_not_received) \/ includes(lower, kw_pending)
              THEN [category |-> "Payments", tat |-> 12]
              ELSE [category |-> "Payments", tat |-> 72]
         ELSE IF includes(lower, kw_cod) \/ includes(lower, kw_deposit)
                 \/ includes(lower, kw_cash)
         THEN [category |-> "COD", tat |-> 24]
         ELSE IF includes(lower, kw_load) \/ includes(lower, kw_volume)
                 \/ includes(lower, kw_manifest)
         THEN [category |-> "Orders & Planning", tat |-> 12]
         ELSE IF includes(lower, kw_cms) \/ includes(lower, kw_log10)
                 \/ includes(lower, kw_system) \/ includes(lower, kw_tool)
         THEN [category |-> "Tech Issues", tat |-> 24]
         ELSE [category |-> "General", tat |-> 48]

\* the threshold counted as due soon: `remaining <= threshold`
calculateUrgency_inclusive(tatHours, elapsed) ==
    LET remaining == tatHours * UnitsPerHour - elapsed
        threshold == (tatHours * UnitsPerHour) \div 4
    IN  IF remaining < 0 THEN [status |-> "OVERDUE", sortOrder |-> 1]
        ELSE IF remaining <= threshold THEN [status |-> "DUE_SOON", sortOrder |-> 2]
        ELSE [status |-> "ON_TRACK", sortOrder |-> 3]

\* tatHours in hours, elapsed in units; remaining and threshold are both
\* scaled by UnitsPerHour, which keeps the two comparisons exact
calculateUrgency(tatHours, elapsed) ==
    LET remaining == tatHours * UnitsPerHour - elapsed
        threshold == (tatHours * UnitsPerHour) \div 4
    IN  IF remaining < 0 THEN [status |-> "OVERDUE", sortOrder |-> 1]
        ELSE IF remaining < threshold THEN [status |-> "DUE_SOON", sortOrder |-> 2]
        ELSE [status |-> "ON_TRACK", sortOrder |-> 3]

\* Math.round(hours * 10) / 10 of a duration given in units, in tenths of an
\* hour: hours * 10 = units / 4, and Math.round rounds a half up
RoundTenths(units) == (units + 2) \div 4

\* A createDate as the API delivers it:
\*   "str"    the string 'YYYY-MM-DD HH:MM:SS' of the instant t
\*   "badstr" a string that is not in that form
\*   "null", "obj", "num"   null/undefined, an object, a number
DateValue(kind, t) == [kind |-> kind, t |-> t]

\* the date text ignored: every date is the instant of the call
parseDate_now(dateStr, clock) ==
    IF dateStr.kind \in {"null", "obj", "num"} THEN Thrown
    ELSE Ok(clock)

parseDate(dateStr, clock) ==
    IF dateStr.kind \in {"null", "obj", "num"} THEN Thrown   \* no .match to call
    ELSE IF dateStr.kind = "badstr" THEN Ok(clock)
    ELSE Ok(dateStr.t)

\* A remark is null or a text, given as its tokens: TokAssigned is the text
\* the pattern looks for, "<" ends the captured group, " " is white space
TokAssigned == "assigned to "
Remark(isNull, toks) == [isNull |-> isNull, toks |-> toks]

RECURSIVE JoinToks(_)
JoinToks(toks) == IF toks = <<>> THEN "" ELSE Head(toks) \o JoinToks(Tail(toks))

RECURSIVE TrimLeft(_)
TrimLeft(toks) ==
    IF toks # <<>> /\ Head(toks) = " " THEN TrimLeft(Tail(toks)) ELSE toks

RECURSIVE TrimRight(_)
TrimRight(toks) ==
    IF toks # <<>> /\ toks[Len(toks)] = " "
    THEN TrimRight(SubSeq(toks, 1, Len(toks) - 1)) ELSE toks

\* remark.match(/assigned to ([^<]+)/i): leftmost 'assigned to ' that is
\* followed by at least one character other than '<'; the group runs to the
\* next '<' or to the end
extractAgentEmail(remark) ==
    IF remark.isNull THEN Thrown
    ELSE LET toks == remark.toks
             starts == {i \in 1..(Len(toks) - 1) :
                          toks[i] = TokAssigned /\ toks[i + 1] # "<"}
         IN  IF starts = {} THEN Ok("Unknown")
             ELSE LET i == CHOOSE k \in starts : \A m \in starts : k <= m
                      stops == {j \in (i + 1)..Len(toks) : toks[j] = "<"}
                      last == IF stops = {} THEN Len(toks)
                              ELSE (CHOOSE k \in stops : \A m \in stops : k <= m) - 1
                  IN  Ok(JoinToks(TrimRight(TrimLeft(SubSeq(toks, i + 1, last)))))

Event(action, createDate, remark, substatus) ==
    [action |-> action, createDate |-> createDate,
     remark |-> remark, substatus |-> substatus]

\* the substatus left out of the test: every event of the action is selected
RECURSIVE SelectEvents_anySubstatus(_, _, _)
SelectEvents_anySubstatus(history, action, substatus) ==
    IF history = <<>> THEN <<>>
    ELSE LET h == Head(history)
             rest == SelectEvents_anySubstatus(Tail(history), action, substatus)
         IN  IF h.action = action THEN <<h>> \o rest ELSE rest

\* Array.prototype.filter
RECURSIVE SelectEvents(_, _, _)
SelectEvents(history, action, substatus) ==
    IF history = <<>> THEN <<>>
    ELSE LET h == Head(history)
             rest == SelectEvents(Tail(history), action, substatus)
         IN  IF h.action = action /\ (substatus = "" \/ h.substatus = substatus)
             THEN <<h>> \o rest ELSE rest

\* the filter on the action left out: the last event of the history
findLatestAssignment_unfiltered(history) ==
    IF Len(history) = 0 THEN None ELSE Some(history[Len(history)])

findLatestAssignment(history) ==
    LET assignments == SelectEvents(history, "MANUAL ASSIGNED", "")
    IN  IF Len(assignments) = 0 THEN None
        ELSE Some(assignments[Len(assignments)])


----------------------------------------------------------------------------
(* What the ticketing API can answer *)

\* ticket.ticketId of the pending tickets, and their ticket.taskTitle
Tickets == {101, 102}
taskTitle == (101 :> Some(subjShortage)) @@ (102 :> Some(subjPayment))

TicketLists == {<<>>, <<101>>, <<102>>, <<101, 102>>}

\* Instants that Date.now() takes, and instants of the history events
ClockValues == {80, 2881}
T0 == 0
T1 == 40

rmNamed == Remark(FALSE, <<"-Manual Task Assigning - ", TokAssigned, "Deepika">>)
rmOther == Remark(FALSE, <<"Reassigned by rule">>)
rmEmpty == Remark(FALSE, <<>>)
rmNull == Remark(TRUE, <<>>)

evCreated == Event("CREATED", DateValue("str", T0), rmEmpty, "")
evAssign0 == Event("MANUAL ASSIGNED", DateValue("str", T0), rmNamed, "")
evAssign1 == Event("MANUAL ASSIGNED", DateValue("str", T1), rmOther, "")
evAssignNoRemark == Event("MANUAL ASSIGNED", DateValue("str", T0), rmNull, "")
evAssignEmptyRemark == Event("MANUAL ASSIGNED", DateValue("str", T0), rmEmpty, "")
evAssignBadDate == Event("MANUAL ASSIGNED", DateValue("badstr", 0), rmNamed, "")
evAssignNoDate == Event("MANUAL ASSIGNED", DateValue("null", 0), rmNamed, "")
evEscalated == Event("DISPOSED", DateValue("str", T1), rmEmpty, "ETL")
evEscalated0 == Event("DISPOSED", DateValue("str", T0), rmEmpty, "ETL")
evResolved == Event("DISPOSED", DateValue("str", T1), rmEmpty, "RESOLVED")

Histories ==
    { <<>>,
      <<evCreated>>,
      <<evCreated, evAssign0>>,
      <<evAssign0, evAssign1>>,
      <<evAssign1, evAssign0>>,
      <<evAssignNoRemark>>,
      <<evAssignEmptyRemark>>,
      <<evAssignBadDate>>,
      <<evAssignNoDate>>,
      <<evAssign0, evEscalated>>,
      <<evAssign0>>,
      <<evEscalated0, evAssign0, evEscalated, evResolved>> }

\* Outcomes of a fetch followed by response.json(): the body, a status that
\* is not ok, a rejected fetch or an unparsable body, a body that is not
\* {status: 'Success', response: {...}}
FailKinds == {"http", "throw", "badBody"}

----------------------------------------------------------------------------
(* processTicketHistory, from the history to the record it stores *)

\* the record literal; it is reached only when nothing before it threw
ticketRecord(ticketId, history, latestAssignment, clock) ==
    LET assignedTime == parseDate(latestAssignment.createDate, clock).val
        elapsed == clock - assignedTime
        sopMatch == matchSOPCategory(taskTitle[ticketId])
        remaining == sopMatch.tat * UnitsPerHour - elapsed
        urgency == calculateUrgency(sopMatch.tat, elapsed)
        agentEmail == extractAgentEmail(latestAssignment.remark).val
        escalations == SelectEvents(history, "DISPOSED", "ETL")
    IN  [ticketId |-> ticketId,
         subject |-> taskTitle[ticketId],
         assignedTo |-> agentEmail,
         assignedTime |-> assignedTime,
         sopCategory |-> sopMatch.category,
         tatHours |-> sopMatch.tat,
         elapsedHours |-> RoundTenths(elapsed),
         remainingHours |-> RoundTenths(remaining),
         urgencyLevel |-> urgency.status,
         isEscalated |-> Len(escalations) > 0,
         escalationCount |-> Len(escalations),
         lastEscalatedTime |->
             IF Len(escalations) > 0
             THEN Some(parseDate(escalations[Len(escalations)].createDate, clock).val)
             ELSE None,
         lastUpdate |-> clock]

\* the exceptions of the try block, in the order the code can raise them
buildThrows(history, latestAssignment, clock) ==
    LET escalations == SelectEvents(history, "DISPOSED", "ETL")
    IN  \/ ~parseDate(latestAssignment.createDate, clock).ok
        \/ ~extractAgentEmail(latestAssignment.remark).ok
        \/ /\ Len(escalations) > 0
           /\ ~parseDate(escalations[Len(escalations)].createDate, clock).ok

\* Some(record) when the history leads to storeTicketRecord, None when the
\* ticket is left alone (no assignment, or an exception that the catch logs)
reconcile(ticketId, history, clock) ==
    LET latestAssignment == findLatestAssignment(history)
    IN  IF latestAssignment = None THEN None
        ELSE IF buildThrows(history, latestAssignment[1], clock) THEN None
        ELSE Some(ticketRecord(ticketId, history, latestAssignment[1], clock))


----------------------------------------------------------------------------
(* State of the asynchronous invocations *)

\* pc of an invocation of fetchAndProcessTickets: the await it is suspended at
\*   "list"      fetch of get-ticket-list and response.json()
\*   "history"   fetch of get-ticket-detail and json(), in processTicketHistory
\*   "storeGet"  chrome.storage.local.get in storeTicketRecord
\*   "storeSet"  chrome.storage.local.set in storeTicketRecord
\*   "dashGet"   chrome.storage.local.get in updateDashboard
\*   "dashSet"   chrome.storage.local.set in updateDashboard
\*   "resume"    returned; start() has not yet resumed from its await
\* queue: the tickets of the list not yet processed, the current one first;
\* hist: the history just received, kept until the next await resolves
\*       (history variable);
\* failed: the ticket whose history request has just failed, 0 for none, kept
\*       until the next storage call resolves (history variable);
\* rec: ticketRecord inside storeTicketRecord; write: the value passed to set
IdleCycle ==
    [pc |-> "idle", origin |-> "tick", queue |-> <<>>,
     hist |-> None, failed |-> 0, rec |-> None, write |-> None]

InFlightPcs == {"list", "history", "storeGet", "storeSet", "dashGet", "dashSet"}
StorePcs == {"storeGet", "storeSet"}

IdleDisp ==
    [pc |-> "idle", ticketId |-> 0, disposition |-> "", rec |-> None, write |-> None]

NoTickets == [t \in Tickets |-> None]

Init ==
    /\ isTracking = FALSE
    /\ intervalId = 0
    /\ timers = {}
    /\ cyc = [c \in Cycles |-> IdleCycle]
    /\ tatTickets = NoTickets
    /\ dashboard = None
    /\ badge = None
    /\ tatHistory = <<>>
    /\ disp = [d \in DispSlots |-> IdleDisp]
    /\ contextValid = TRUE
    /\ now \in ClockValues
    /\ detachSeen = FALSE
    /\ lastWritten = NoTickets
    /\ nStored = 0
    /\ probe = None

----------------------------------------------------------------------------
(* TATTrackerBackground: start, stop, fetchAndProcessTickets *)

\* stop(), as the values it leaves in isTracking and in the set of timers
stopTimers(tracking, tms) ==
    IF tracking /\ intervalId # 0 THEN tms \ {intervalId} ELSE tms

\* the invocation returns: a cycle that start() awaits lets start() resume
EndCycle(cr) ==
    IF cr.origin = "start"
    THEN [IdleCycle EXCEPT !.pc = "resume", !.origin = "start"]
    ELSE IdleCycle

\* updateDashboard up to its first await
EnterDashboard(cr) ==
    IF contextValid
    THEN [cr EXCEPT !.pc = "dashGet", !.queue = <<>>, !.rec = None, !.write = None]
    ELSE EndCycle(cr)

\* the for loop over the tickets: processTicketHistory up to its fetch, or
\* updateDashboard after the last ticket
ProcessQueue(cr, queue) ==
    IF queue # <<>>
    THEN [cr EXCEPT !.pc = "history", !.queue = queue, !.rec = None, !.write = None]
    ELSE EnterDashboard(cr)

\* fetchAndProcessTickets up to its first await, in slot c
BeginCycle(c, origin, tracking) ==
    IF contextValid
    THEN /\ cyc' = [cyc EXCEPT ![c] = [IdleCycle EXCEPT !.pc = "list", !.origin = origin]]
         /\ isTracking' = tracking
         /\ UNCHANGED <<timers, detachSeen>>
    ELSE /\ cyc' = [cyc EXCEPT ![c] = EndCycle([IdleCycle EXCEPT !.origin = origin])]
         /\ isTracking' = FALSE
         /\ timers' = stopTimers(tracking, timers)
         /\ detachSeen' = TRUE

PendingStarts == {c \in Cycles : cyc[c].pc # "idle" /\ cyc[c].origin = "start"}

\* a new invocation takes the first free slot (which slot is of no consequence)
FreeSlot(c) == cyc[c].pc = "idle" /\ \A d \in Cycles : d < c => cyc[d].pc # "idle"

Start(c) ==
    /\ UNCHANGED probe
    /\ ~isTracking
    /\ FreeSlot(c)
    /\ intervalId + Cardinality(PendingStarts) < MaxTimers
    /\ BeginCycle(c, "start", TRUE)
    /\ UNCHANGED <<intervalId, tatTickets, dashboard, badge, tatHistory, disp,
                   contextValid, now, lastWritten, nStored>>

\* start() resumes after `await this.fetchAndProcessTickets()`
StartResume(c) ==
    /\ UNCHANGED probe
    /\ cyc[c].pc = "resume"
    /\ intervalId' = intervalId + 1
    /\ timers' = timers \cup {intervalId + 1}
    /\ cyc' = [cyc EXCEPT ![c] = IdleCycle]
    /\ UNCHANGED <<isTracking, tatTickets, dashboard, badge, tatHistory, disp,
                   contextValid, now, detachSeen, lastWritten, nStored>>

Stop ==
    /\ UNCHANGED probe
    /\ isTracking
    /\ isTracking' = FALSE
    /\ timers' = stopTimers(TRUE, timers)
    /\ UNCHANGED <<intervalId, cyc, tatTickets, dashboard, badge, tatHistory, disp,
                   contextValid, now, detachSeen, lastWritten, nStored>>

\* a timer that is armed again only by a cycle that wrote the dashboard
Tick_afterSuccessOnly(c) ==
    /\ UNCHANGED probe
    /\ timers # {}
    /\ dashboard # None
    /\ FreeSlot(c)
    /\ BeginCycle(c, "tick", isTracking)
    /\ UNCHANGED <<intervalId, tatTickets, dashboard, badge, tatHistory, disp,
                   contextValid, now, lastWritten, nStored>>

\* the callback of setInterval
Tick(c) ==
    /\ UNCHANGED probe
    /\ timers # {}
    /\ FreeSlot(c)
    /\ BeginCycle(c, "tick", isTracking)
    /\ UNCHANGED <<intervalId, tatTickets, dashboard, badge, tatHistory, disp,
                   contextValid, now, lastWritten, nStored>>

\* error.message of what the try block of fetchAndProcessTickets can catch
errorMessage(kind) ==
    CASE kind = "http" -> "API returned 500"
      [] kind = "throw" -> "Failed to fetch"
      [] kind = "detached" -> "Extension context invalidated"

\* a catch that stops the tracker on every error
isContextInvalidated_always(message) == TRUE

\* error.message?.includes('Extension context invalidated')
isContextInvalidated(message) == message = "Extension context invalidated"

ListFailKinds == FailKinds \cup {"detached"}

\* the list request fails: the throw of `API returned ...` or a rejected await
\* lands in the catch, which calls stop() for an invalidated context and logs
\* otherwise; a body without a ticket list skips the if and raises nothing
ListFailed(c, kind) ==
    /\ UNCHANGED probe
    /\ cyc[c].pc = "list"
    /\ kind \in ListFailKinds
    /\ kind = "detached" => ~contextValid
    /\ cyc' = [cyc EXCEPT ![c] = EndCycle(cyc[c])]
    /\ IF kind # "badBody" /\ isContextInvalidated(errorMessage(kind))
       THEN /\ isTracking' = FALSE
            /\ timers' = stopTimers(isTracking, timers)
            /\ detachSeen' = TRUE
       ELSE UNCHANGED <<isTracking, timers, detachSeen>>
    /\ UNCHANGED <<intervalId, tatTickets, dashboard, badge, tatHistory, disp,
                   contextValid, now, lastWritten, nStored>>

ListReceived(c, tickets) ==
    /\ UNCHANGED probe
    /\ cyc[c].pc = "list"
    /\ tickets \in TicketLists
    /\ cyc' = [cyc EXCEPT ![c] = ProcessQueue(cyc[c], tickets)]
    /\ UNCHANGED <<isTracking, intervalId, timers, tatTickets, dashboard, badge,
                   tatHistory, disp, contextValid, now, detachSeen, lastWritten,
                   nStored>>


\* a failure of the history request that is not caught in
\* processTicketHistory and ends the cycle in the catch of
\* fetchAndProcessTickets
HistoryFailed_aborts(c, kind) ==
    /\ UNCHANGED probe
    /\ cyc[c].pc = "history"
    /\ kind \in FailKinds
    /\ cyc' = [cyc EXCEPT ![c] = EndCycle(cyc[c])]
    /\ UNCHANGED <<isTracking, intervalId, timers, tatTickets, dashboard, badge,
                   tatHistory, disp, contextValid, now, detachSeen, lastWritten,
                   nStored>>

\* the history request fails: `return` on a status that is not ok, the catch
\* of processTicketHistory, or the else branch of an invalid body
HistoryFailed(c, kind) ==
    /\ UNCHANGED probe
    /\ cyc[c].pc = "history"
    /\ kind \in FailKinds
    /\ cyc' = [cyc EXCEPT ![c] =
                 ProcessQueue([cyc[c] EXCEPT !.hist = None,
                                             !.failed = Head(cyc[c].queue)],
                              Tail(cyc[c].queue))]
    /\ UNCHANGED <<isTracking, intervalId, timers, tatTickets, dashboard, badge,
                   tatHistory, disp, contextValid, now, detachSeen, lastWritten,
                   nStored>>

\* the history arrives: reconcile, build the record, and storeTicketRecord up
\* to its first await (it returns at once when chrome.runtime.id is absent)
HistoryReceived(c, history) ==
    /\ UNCHANGED probe
    /\ cyc[c].pc = "history"
    /\ history \in Histories
    /\ LET cr == [cyc[c] EXCEPT !.hist = Some(history)]
           rec == reconcile(Head(cr.queue), history, now)
       IN  cyc' = [cyc EXCEPT ![c] =
                     IF rec # None /\ contextValid
                     THEN [cr EXCEPT !.pc = "storeGet", !.rec = rec]
                     ELSE ProcessQueue(cr, Tail(cr.queue))]
    /\ UNCHANGED <<isTracking, intervalId, timers, tatTickets, dashboard, badge,
                   tatHistory, disp, contextValid, now, detachSeen, lastWritten,
                   nStored>>

\* A storage call of a detached context fails with 'Extension context
\* invalidated'; the catch of storeTicketRecord and of updateDashboard calls
\* stop()
StorageFailed(c, next) ==
    /\ ~contextValid
    /\ cyc' = [cyc EXCEPT ![c] = next]
    /\ isTracking' = FALSE
    /\ timers' = stopTimers(isTracking, timers)
    /\ detachSeen' = TRUE
    /\ UNCHANGED <<intervalId, tatTickets, dashboard, badge, tatHistory, disp,
                   contextValid, now, lastWritten, nStored>>

\* storeTicketRecord: get resolves with the map; the record is put into that
\* copy and the copy is passed to set
StoreGetDone(c) ==
    /\ UNCHANGED probe
    /\ cyc[c].pc = "storeGet"
    /\ \/ /\ contextValid
          /\ LET rec == cyc[c].rec[1]
                 map == [tatTickets EXCEPT ![rec.ticketId] = Some(rec)]
             IN  cyc' = [cyc EXCEPT ![c] =
                           [cyc[c] EXCEPT !.pc = "storeSet", !.hist = None,
                                          !.failed = 0, !.write = Some(map)]]
          /\ UNCHANGED <<isTracking, intervalId, timers, tatTickets, dashboard,
                         badge, tatHistory, disp, contextValid, now, detachSeen,
                         lastWritten, nStored>>
       \/ StorageFailed(c, ProcessQueue(cyc[c], Tail(cyc[c].queue)))

\* storeTicketRecord: set resolves, the whole map is replaced
StoreSetDone(c) ==
    /\ UNCHANGED probe
    /\ cyc[c].pc = "storeSet"
    /\ \/ /\ contextValid
          /\ tatTickets' = cyc[c].write[1]
          /\ lastWritten' = [lastWritten EXCEPT ![cyc[c].rec[1].ticketId] = cyc[c].rec]
          /\ cyc' = [cyc EXCEPT ![c] = ProcessQueue(cyc[c], Tail(cyc[c].queue))]
          /\ UNCHANGED <<isTracking, intervalId, timers, dashboard, badge,
                         tatHistory, disp, contextValid, now, detachSeen, nStored>>
       \/ StorageFailed(c, ProcessQueue(cyc[c], Tail(cyc[c].queue)))

\* Object.values(tatTickets): ticket ids are integer keys, which an object
\* enumerates in ascending order
RECURSIVE ObjectValues(_, _)
ObjectValues(map, keys) ==
    IF keys = {} THEN <<>>
    ELSE LET k == CHOOSE x \in keys : \A y \in keys : x <= y
             rest == ObjectValues(map, keys \ {k})
         IN  IF map[k] = None THEN rest ELSE map[k] \o rest

CountUrgency(tickets, level) ==
    Cardinality({i \in 1..Len(tickets) : tickets[i].urgencyLevel = level})

tatStats(tickets) ==
    [total |-> Len(tickets),
     overdue |-> CountUrgency(tickets, "OVERDUE"),
     dueSoon |-> CountUrgency(tickets, "DUE_SOON"),
     onTrack |-> CountUrgency(tickets, "ON_TRACK"),
     escalated |-> Cardinality({i \in 1..Len(tickets) : tickets[i].isEscalated})]

\* updateDashboard: get resolves, the list and the stats are passed to set
DashGetDone(c) ==
    /\ UNCHANGED probe
    /\ cyc[c].pc = "dashGet"
    /\ \/ /\ contextValid
          /\ LET tickets == ObjectValues(tatTickets, Tickets)
             IN  cyc' = [cyc EXCEPT ![c] =
                           [cyc[c] EXCEPT !.pc = "dashSet", !.hist = None,
                               !.failed = 0, !.write = Some([trackedTickets |-> tickets,
                                               tatStats |-> tatStats(tickets)])]]
          /\ UNCHANGED <<isTracking, intervalId, timers, tatTickets, dashboard,
                         badge, tatHistory, disp, contextValid, now, detachSeen,
                         lastWritten, nStored>>
       \/ StorageFailed(c, EndCycle(cyc[c]))

\* updateDashboard: set resolves, then updateBadge(stats.overdue)
DashSetDone(c) ==
    /\ UNCHANGED probe
    /\ cyc[c].pc = "dashSet"
    /\ \/ /\ contextValid
          /\ dashboard' = cyc[c].write
          /\ badge' = Some(cyc[c].write[1].tatStats.overdue)
          /\ cyc' = [cyc EXCEPT ![c] = EndCycle(cyc[c])]
          /\ UNCHANGED <<isTracking, intervalId, timers, tatTickets, tatHistory,
                         disp, contextValid, now, detachSeen, lastWritten, nStored>>
       \/ StorageFailed(c, EndCycle(cyc[c]))

----------------------------------------------------------------------------
(* The environment *)

\* the extension is reloaded or removed: chrome.runtime.id is gone for good
Detach ==
    /\ UNCHANGED probe
    /\ contextValid
    /\ contextValid' = FALSE
    /\ UNCHANGED <<isTracking, intervalId, timers, cyc, tatTickets, dashboard,
                   badge, tatHistory, disp, now, detachSeen, lastWritten, nStored>>

Advance(t) ==
    /\ UNCHANGED probe
    /\ t \in ClockValues
    /\ t > now
    /\ now' = t
    /\ UNCHANGED <<isTracking, intervalId, timers, cyc, tatTickets, dashboard,
                   badge, tatHistory, disp, contextValid, detachSeen, lastWritten,
                   nStored>>

----------------------------------------------------------------------------
(* TATAnalytics: recordDisposition and storeHistoricalRecord *)

HistoryCap == 1000
Dispositions == {"RESOLVED", "ETL"}

dispositionRecord(ticket, disposition, disposedTime) ==
    LET tat == disposedTime - ticket.assignedTime
    IN  [ticketId |-> ticket.ticketId,
         subject |-> ticket.subject,
         category |-> ticket.sopCategory,
         agent |-> ticket.assignedTo,
         assignedTime |-> ticket.assignedTime,
         disposedTime |-> disposedTime,
         tatHours |-> RoundTenths(tat),
         dispositionType |-> disposition,
         isEscalated |-> disposition = "ETL",
         wasOverdue |-> tat > ticket.tatHours * UnitsPerHour]

\* tatHistory.push(record), and shift() past the capacity
pushCapped(log, record) ==
    LET pushed == Append(log, record)
    IN  IF Len(pushed) > HistoryCap THEN Tail(pushed) ELSE pushed

DispInFlight == {d \in DispSlots : disp[d].pc # "idle"}

\* the page calls recordDisposition(ticketId, disposition): up to the await
\* of chrome.storage.local.get(['tatTickets'])
RecordDisposition(d, ticketId, disposition) ==
    /\ UNCHANGED probe
    /\ disp[d].pc = "idle"
    /\ contextValid
    /\ ticketId \in Tickets
    /\ disposition \in Dispositions
    /\ nStored + Cardinality(DispInFlight) < MaxDispCalls
    /\ disp' = [disp EXCEPT ![d] =
                  [IdleDisp EXCEPT !.pc = "getTickets", !.ticketId = ticketId,
                                   !.disposition = disposition]]
    /\ UNCHANGED <<isTracking, intervalId, timers, cyc, tatTickets, dashboard,
                   badge, tatHistory, contextValid, now, detachSeen, lastWritten,
                   nStored>>

\* without the return for an unknown ticket: a record is built for it as for
\* a ticket assigned at T0
DispTicketsRead_noGuard(d) ==
    /\ UNCHANGED probe
    /\ disp[d].pc = "getTickets"
    /\ contextValid
    /\ LET ticket == IF tatTickets[disp[d].ticketId] = None
                     THEN reconcile(disp[d].ticketId, <<evAssign0>>, now)
                     ELSE tatTickets[disp[d].ticketId]
       IN  disp' = [disp EXCEPT ![d] =
                      [disp[d] EXCEPT !.pc = "getHistory",
                          !.rec = Some(dispositionRecord(ticket[1],
                                           disp[d].disposition, now))]]
    /\ UNCHANGED <<isTracking, intervalId, timers, cyc, tatTickets, dashboard,
                   badge, tatHistory, contextValid, now, detachSeen, lastWritten,
                   nStored>>

\* the snapshot map arrives: return when the ticket is unknown, else build
\* the record and call storeHistoricalRecord up to its get
DispTicketsRead(d) ==
    /\ UNCHANGED probe
    /\ disp[d].pc = "getTickets"
    /\ contextValid
    /\ LET ticket == tatTickets[disp[d].ticketId]
       IN  disp' = [disp EXCEPT ![d] =
                      IF ticket = None THEN IdleDisp
                      ELSE [disp[d] EXCEPT !.pc = "getHistory",
                              !.rec = Some(dispositionRecord(ticket[1],
                                               disp[d].disposition, now))]]
    /\ UNCHANGED <<isTracking, intervalId, timers, cyc, tatTickets, dashboard,
                   badge, tatHistory, contextValid, now, detachSeen, lastWritten,
                   nStored>>

\* storeHistoricalRecord: get resolves with the log, push, set is called
DispHistoryRead(d) ==
    /\ UNCHANGED probe
    /\ disp[d].pc = "getHistory"
    /\ contextValid
    /\ disp' = [disp EXCEPT ![d] =
                  [disp[d] EXCEPT !.pc = "setHistory",
                      !.write = Some(pushCapped(tatHistory, disp[d].rec[1]))]]
    /\ UNCHANGED <<isTracking, intervalId, timers, cyc, tatTickets, dashboard,
                   badge, tatHistory, contextValid, now, detachSeen, lastWritten,
                   nStored>>

\* storeHistoricalRecord: set resolves, the whole log is replaced
DispHistoryWritten(d) ==
    /\ UNCHANGED probe
    /\ disp[d].pc = "setHistory"
    /\ contextValid
    /\ tatHistory' = disp[d].write[1]
    /\ nStored' = nStored + 1
    /\ disp' = [disp EXCEPT ![d] = IdleDisp]
    /\ UNCHANGED <<isTracking, intervalId, timers, cyc, tatTickets, dashboard,
                   badge, contextValid, now, detachSeen, lastWritten>>

\* a storage call of recordDisposition fails in a detached context: nothing
\* catches it, the call is over
DispAborted(d) ==
    /\ UNCHANGED probe
    /\ disp[d].pc # "idle"
    /\ ~contextValid
    /\ disp' = [disp EXCEPT ![d] = IdleDisp]
    /\ UNCHANGED <<isTracking, intervalId, timers, cyc, tatTickets, dashboard,
                   badge, tatHistory, contextValid, now, detachSeen, lastWritten,
                   nStored>>

----------------------------------------------------------------------------

\* The polling scheduler and its environment: poll cycles that overlap, on a
\* list of at most one ticket whose history has or has not an assignment
SchedLists == {<<>>, <<101>>}
SchedHistories == {<<evCreated>>, <<evCreated, evAssign0>>}

Next ==
    \/ \E c \in Cycles : Start(c)
    \/ \E c \in Cycles : StartResume(c)
    \/ Stop
    \/ \E c \in Cycles : Tick(c)
    \/ \E c \in Cycles, kind \in ListFailKinds : ListFailed(c, kind)
    \/ \E c \in Cycles, tickets \in SchedLists : ListReceived(c, tickets)
    \/ \E c \in Cycles, kind \in FailKinds : HistoryFailed(c, kind)
    \/ \E c \in Cycles, history \in SchedHistories : HistoryReceived(c, history)
    \/ \E c \in Cycles : StoreGetDone(c)
    \/ \E c \in Cycles : StoreSetDone(c)
    \/ \E c \in Cycles : DashGetDone(c)
    \/ \E c \in Cycles : DashSetDone(c)
    \/ Detach
    \/ \E t \in ClockValues : Advance(t)

Spec == Init /\ [][Next]_vars

\* Poll cycles that overlap on two tickets: the scheduler is started, its
\* timer fires, and every request is answered
StoreLists == {<<101>>, <<102>>}

NextStore ==
    \/ \E c \in Cycles : Start(c)
    \/ \E c \in Cycles : StartResume(c)
    \/ \E c \in Cycles : Tick(c)
    \/ \E c \in Cycles, tickets \in StoreLists : ListReceived(c, tickets)
    \/ \E c \in Cycles, history \in SchedHistories : HistoryReceived(c, history)
    \/ \E c \in Cycles : StoreGetDone(c)
    \/ \E c \in Cycles : StoreSetDone(c)
    \/ \E c \in Cycles : DashGetDone(c)
    \/ \E c \in Cycles : DashSetDone(c)
    \/ Detach

SpecStore == Init /\ [][NextStore]_vars

\* One poll cycle at a time (slot 1), on every history of the model
NextReconcile ==
    \/ Start(1)
    \/ StartResume(1)
    \/ Tick(1)
    \/ \E kind \in ListFailKinds : ListFailed(1, kind)
    \/ \E tickets \in TicketLists : ListReceived(1, tickets)
    \/ \E kind \in FailKinds : HistoryFailed(1, kind)
    \/ \E history \in Histories : HistoryReceived(1, history)
    \/ StoreGetDone(1)
    \/ StoreSetDone(1)
    \/ DashGetDone(1)
    \/ DashSetDone(1)
    \/ Detach
    \/ \E t \in ClockValues : Advance(t)

SpecReconcile == Init /\ [][NextReconcile]_vars

\* One poll cycle at a time, polled 80 hours after the instant T0
PollAt80h == T0 + 80 * UnitsPerHour

InitAt80h ==
    /\ isTracking = FALSE
    /\ intervalId = 0
    /\ timers = {}
    /\ cyc = [c \in Cycles |-> IdleCycle]
    /\ tatTickets = NoTickets
    /\ dashboard = None
    /\ badge = None
    /\ tatHistory = <<>>
    /\ disp = [d \in DispSlots |-> IdleDisp]
    /\ contextValid = TRUE
    /\ now = PollAt80h
    /\ detachSeen = FALSE
    /\ lastWritten = NoTickets
    /\ nStored = 0
    /\ probe = None

NextAt80h ==
    \/ Start(1)
    \/ StartResume(1)
    \/ Tick(1)
    \/ \E kind \in ListFailKinds : ListFailed(1, kind)
    \/ \E tickets \in TicketLists : ListReceived(1, tickets)
    \/ \E kind \in FailKinds : HistoryFailed(1, kind)
    \/ \E history \in Histories : HistoryReceived(1, history)
    \/ StoreGetDone(1)
    \/ StoreSetDone(1)
    \/ DashGetDone(1)
    \/ DashSetDone(1)
    \/ Detach

SpecAt80h == InitAt80h /\ [][NextAt80h]_vars

\* One poll cycle at a time with start and stop, under the scheduling of the
\* browser: an interval timer that is set keeps firing, and a promise that
\* has resolved resumes its awaiter
NextLive ==
    \/ Start(1)
    \/ StartResume(1)
    \/ Stop
    \/ Tick(1)
    \/ \E kind \in ListFailKinds : ListFailed(1, kind)
    \/ \E tickets \in SchedLists : ListReceived(1, tickets)
    \/ \E kind \in FailKinds : HistoryFailed(1, kind)
    \/ \E history \in SchedHistories : HistoryReceived(1, history)
    \/ StoreGetDone(1)
    \/ StoreSetDone(1)
    \/ DashGetDone(1)
    \/ DashSetDone(1)
    \/ Detach

SpecLive ==
    Init /\ [][NextLive]_vars /\ WF_vars(Tick(1)) /\ WF_vars(StartResume(1))

\* calculateUrgency on its own: the SLA hours of the classifier, and elapsed
\* times at, just before and just after whole hours around its boundaries
SlaHours == {12, 24, 48, 72}
ProbeHours == {0, 3, 9, 12, 13, 18, 24, 36, 48, 54, 72, 73}
ElapsedInputs ==
    {e \in {h * UnitsPerHour + d : h \in ProbeHours, d \in {-1, 0, 1}} : e >= 0}

EvaluateUrgency(tatHours, elapsed) ==
    /\ probe' = Some([fn |-> "calculateUrgency", tatHours |-> tatHours,
                      elapsed |-> elapsed,
                      out |-> calculateUrgency(tatHours, elapsed)])
    /\ UNCHANGED <<isTracking, intervalId, timers, cyc, tatTickets, dashboard,
                   badge, tatHistory, disp, contextValid, now, detachSeen,
                   lastWritten, nStored>>

NextUrgency ==
    \E tatHours \in SlaHours, elapsed \in ElapsedInputs :
        EvaluateUrgency(tatHours, elapsed)

SpecUrgency == Init /\ [][NextUrgency]_vars

\* The classifiers on their own: no subject, the empty subject, one word, and
\* two words with a space between them
Words ==
    {kw_shortage, kw_loss, kw_debit, kw_hardstop, kw_payment, kw_invoice,
     kw_payout, kw_gst, kw_not_received, kw_pending, kw_cod, kw_deposit,
     kw_cash, kw_load, kw_volume, kw_manifest, kw_cms, kw_log10, kw_system,
     kw_shipment, kw_short, kw_missing, kw_pending_sign, kw_pendency,
     kw_planning, kw_tool, kw_bagging, kw_inactive,
     wd_hello, wd_Refund, wd_COD}

Subjects ==
    {None, Some(<<>>)}
        \cup {Some(w) : w \in Words}
        \cup {Some(w1 \o <<" ">> \o w2) : w1 \in Words, w2 \in Words}

\* one call, made once in a behaviour
Classify(subject) ==
    /\ probe = None
    /\ probe' = Some([fn |-> "matchSOPCategory", subject |-> subject,
                      out |-> matchSOPCategory(subject),
                      outTracker |-> TicketTracker_matchSOPCategory(subject),
                      outBackground |-> background_matchSOPCategory(subject)])
    /\ UNCHANGED <<isTracking, intervalId, timers, cyc, tatTickets, dashboard,
                   badge, tatHistory, disp, contextValid, now, detachSeen,
                   lastWritten, nStored>>

NextClassify == \E subject \in Subjects : Classify(subject)

SpecClassify == Init /\ [][NextClassify]_vars

\* The disposition log, written by the page while snapshots are in the store:
\* the store starts with what a poll cycle has written
SnapshotMaps ==
    {[t \in Tickets |-> IF t \in ts THEN reconcile(t, <<evAssign0>>, clock) ELSE None] :
        ts \in SUBSET Tickets, clock \in ClockValues}

InitDisp ==
    /\ isTracking = FALSE
    /\ intervalId = 0
    /\ timers = {}
    /\ cyc = [c \in Cycles |-> IdleCycle]
    /\ tatTickets \in SnapshotMaps
    /\ dashboard = None
    /\ badge = None
    /\ tatHistory = <<>>
    /\ disp = [d \in DispSlots |-> IdleDisp]
    /\ contextValid = TRUE
    /\ now \in ClockValues
    /\ detachSeen = FALSE
    /\ lastWritten = tatTickets
    /\ nStored = 0
    /\ probe = None

NextDisp ==
    \/ \E d \in DispSlots, t \in Tickets, x \in Dispositions : RecordDisposition(d, t, x)
    \/ \E d \in DispSlots : DispTicketsRead(d)
    \/ \E d \in DispSlots : DispHistoryRead(d)
    \/ \E d \in DispSlots : DispHistoryWritten(d)
    \/ \E d \in DispSlots : DispAborted(d)
    \/ Detach
    \/ \E t \in ClockValues : Advance(t)

SpecDisp == InitDisp /\ [][NextDisp]_vars

\* The disposition log at its capacity: HistoryCap records of earlier
\* dispositions of ticket 101, the oldest first
FullLog ==
    [i \in 1..HistoryCap |->
        dispositionRecord(reconcile(101, <<evAssign0>>, T1)[1], "RESOLVED", T1 + i)]

InitCap ==
    /\ isTracking = FALSE
    /\ intervalId = 0
    /\ timers = {}
    /\ cyc = [c \in Cycles |-> IdleCycle]
    /\ tatTickets \in SnapshotMaps
    /\ dashboard = None
    /\ badge = None
    /\ tatHistory = FullLog
    /\ disp = [d \in DispSlots |-> IdleDisp]
    /\ contextValid = TRUE
    /\ now \in ClockValues
    /\ detachSeen = FALSE
    /\ lastWritten = tatTickets
    /\ nStored = 0
    /\ probe = None

SpecCap == InitCap /\ [][NextDisp]_vars


----------------------------------------------------------------------------
(* TATAnalytics: getAgentStats and getAllAgentsStats *)

\* Math.round(k / n * 100) for counts 0 <= k <= n, n > 0
RoundPercent(k, n) == (200 * k + n) \div (2 * n)

\* reduce((sum, r) => sum + r.tatHours, 0), in tenths of an hour
RECURSIVE SumTatHours(_)
SumTatHours(records) ==
    IF records = <<>> THEN 0
    ELSE Head(records).tatHours + SumTatHours(Tail(records))

\* Math.round(avgTAT * 10) / 10, in tenths of an hour
RoundMean(sum, n) == (2 * sum + n) \div (2 * n)

\* the object getAgentStats returns for the log that storage holds; a record
\* of the model has exactly the properties the object literal has
getAgentStats(log, agentEmail) ==
    LET agentRecords == SelectSeq(log, LAMBDA r : r.agent = agentEmail)
        n == Len(agentRecords)
        resolved == Len(SelectSeq(agentRecords,
                                  LAMBDA r : r.dispositionType = "RESOLVED"))
        escalated == Len(SelectSeq(agentRecords, LAMBDA r : r.isEscalated))
        overdueCount == Len(SelectSeq(agentRecords, LAMBDA r : r.wasOverdue))
    IN  IF n = 0
        THEN [agent |-> agentEmail,
              totalTickets |-> 0,
              resolved |-> 0,
              escalated |-> 0,
              escalationRate |-> 0,
              avgTAT |-> 0,
              overdueCount |-> 0]
        ELSE [agent |-> agentEmail,
              totalTickets |-> n,
              resolved |-> resolved,
              escalated |-> escalated,
              escalationRate |-> RoundPercent(escalated, n),
              avgTAT |-> RoundMean(SumTatHours(agentRecords), n),
              overdueCount |-> overdueCount,
              overdueRate |-> RoundPercent(overdueCount, n)]

\* [...new Set(tatHistory.map(r => r.agent))]: the agents in the order of
\* their first record
RECURSIVE UniqueAgents(_, _)
UniqueAgents(log, seen) ==
    IF log = <<>> THEN <<>>
    ELSE IF Head(log).agent \in seen THEN UniqueAgents(Tail(log), seen)
    ELSE <<Head(log).agent>>
             \o UniqueAgents(Tail(log), seen \cup {Head(log).agent})

\* allStats.sort((a, b) => b.escalationRate - a.escalationRate): a stable
\* sort, the higher rate first
RECURSIVE InsertByRate(_, _)
InsertByRate(sorted, s) ==
    IF sorted = <<>> THEN <<s>>
    ELSE IF Head(sorted).escalationRate >= s.escalationRate
    THEN <<Head(sorted)>> \o InsertByRate(Tail(sorted), s)
    ELSE <<s>> \o sorted

RECURSIVE SortByRate(_)
SortByRate(allStats) ==
    IF allStats = <<>> THEN <<>>
    ELSE InsertByRate(SortByRate(SubSeq(allStats, 1, Len(allStats) - 1)),
                      allStats[Len(allStats)])

\* The queries run while the page records dispositions. The snapshot map
\* holds ticket 101 of agent Deepika and ticket 102 of an agent the remark
\* does not name; the log holds up to MaxLog records of earlier dispositions
\* of the two tickets, 10, 20 or 30 hours after the assignment
MaxLog == 2

RollupSnapshots ==
    (101 :> reconcile(101, <<evAssign0>>, T0))
        @@ (102 :> reconcile(102, <<evAssignEmptyRemark>>, T0))

LogRecords ==
    {dispositionRecord(RollupSnapshots[t][1], x, T0 + h * UnitsPerHour) :
        t \in Tickets, x \in Dispositions, h \in {10, 20, 30}}

RollupLogs ==
    UNION {[1..n -> LogRecords] : n \in 0..MaxLog}

AgentEmails == {"Deepika", "Unknown", "Nobody"}

\* getAgentStats(agentEmail), called on its own: the call and the storage
\* read it awaits
GetAgentStats(agentEmail) ==
    /\ probe = None
    /\ probe' = Some([fn |-> "getAgentStats", agent |-> agentEmail,
                      log |-> tatHistory,
                      out |-> getAgentStats(tatHistory, agentEmail)])
    /\ UNCHANGED <<isTracking, intervalId, timers, cyc, tatTickets, dashboard,
                   badge, tatHistory, disp, contextValid, now, detachSeen,
                   lastWritten, nStored>>

\* getAllAgentsStats up to its await of chrome.storage.local.get
GetAllAgentsStats ==
    /\ probe = None
    /\ probe' = Some([fn |-> "getAllAgentsStats", pc |-> "get",
                      log |-> <<>>, agents |-> <<>>, allStats |-> <<>>])
    /\ UNCHANGED <<isTracking, intervalId, timers, cyc, tatTickets, dashboard,
                   badge, tatHistory, disp, contextValid, now, detachSeen,
                   lastWritten, nStored>>

\* the end of the for loop: sort and return
AllStatsLoop(q) ==
    IF q.agents = <<>>
    THEN [q EXCEPT !.pc = "done", !.allStats = SortByRate(q.allStats)]
    ELSE [q EXCEPT !.pc = "agent"]

\* the log arrives: the agents are taken from it and getAgentStats is called
\* for the first of them, up to its await; log keeps the log that was read
\* (history variable)
AllStatsRead ==
    /\ probe # None
    /\ probe[1].fn = "getAllAgentsStats"
    /\ probe[1].pc = "get"
    /\ probe' = Some(AllStatsLoop([probe[1] EXCEPT
                                      !.log = tatHistory,
                                      !.agents = UniqueAgents(tatHistory, {})]))
    /\ UNCHANGED <<isTracking, intervalId, timers, cyc, tatTickets, dashboard,
                   badge, tatHistory, disp, contextValid, now, detachSeen,
                   lastWritten, nStored>>

\* the storage read of getAgentStats(agent) resolves: its result is pushed
\* and the loop goes on
AgentStatsRead ==
    /\ probe # None
    /\ probe[1].fn = "getAllAgentsStats"
    /\ probe[1].pc = "agent"
    /\ probe' = Some(AllStatsLoop([probe[1] EXCEPT
                        !.allStats = Append(@, getAgentStats(tatHistory,
                                                   Head(probe[1].agents))),
                        !.agents = Tail(@)]))
    /\ UNCHANGED <<isTracking, intervalId, timers, cyc, tatTickets, dashboard,
                   badge, tatHistory, disp, contextValid, now, detachSeen,
                   lastWritten, nStored>>

InitRollup ==
    /\ isTracking = FALSE
    /\ intervalId = 0
    /\ timers = {}
    /\ cyc = [c \in Cycles |-> IdleCycle]
    /\ tatTickets = RollupSnapshots
    /\ dashboard = None
    /\ badge = None
    /\ tatHistory \in RollupLogs
    /\ disp = [d \in DispSlots |-> IdleDisp]
    /\ contextValid = TRUE
    /\ now = PollAt80h
    /\ detachSeen = FALSE
    /\ lastWritten = tatTickets
    /\ nStored = 0
    /\ probe = None

NextRollup ==
    \/ \E agentEmail \in AgentEmails : GetAgentStats(agentEmail)
    \/ GetAllAgentsStats
    \/ AllStatsRead
    \/ AgentStatsRead
    \/ \E t \in Tickets, x \in Dispositions : RecordDisposition(1, t, x)
    \/ DispTicketsRead(1)
    \/ DispHistoryRead(1)
    \/ DispHistoryWritten(1)

SpecRollup == InitRollup /\ [][NextRollup]_vars


----------------------------------------------------------------------------
(* Properties *)

CyclesInFlight == {c \in Cycles : cyc[c].pc \in InFlightPcs}

\* cycle c issues its ticket-list request in this step
StartsCycle(c) == cyc[c].pc = "idle" /\ cyc'[c].pc = "list"

\* C1: at most one poll cycle is in flight: a timer tick never starts a cycle
\* while another invocation of fetchAndProcessTickets has not returned.
C1_TickIsCoalesced ==
    [][\A c \in Cycles :
          (StartsCycle(c) /\ cyc'[c].origin = "tick") => CyclesInFlight = {}]_vars

\* C2: once stop() has left the tracker not tracking, and until start() is
\* called again, no poll cycle starts (no ticket-list request is issued).
C2_NoCycleAfterStop ==
    [][(~isTracking /\ ~isTracking') => \A c \in Cycles : ~StartsCycle(c)]_vars

\* C3: once a poll cycle has found the context detached and start() is not
\* waiting for its initial fetch, the tracker is not tracking and no interval
\* timer is left set.
C3_SelfStopClearsTimer ==
    (detachSeen /\ PendingStarts = {}) => (~isTracking /\ timers = {})

\* C4: the snapshot map holds, for every ticket, the record of the last
\* storeTicketRecord call that completed for it: no write made for another
\* ticket takes it away.
C4_NoLostSnapshot ==
    \A t \in Tickets : lastWritten[t] # None => tatTickets[t] = lastWritten[t]

\* C5: every recordDisposition call that completed its store is in the
\* disposition log: the log holds as many records as stores have completed
\* (below the capacity).
C5_BothDispositionsLogged ==
    nStored <= HistoryCap => Len(tatHistory) = nStored

NoManualAssigned(history) ==
    \A i \in 1..Len(history) : history[i].action # "MANUAL ASSIGNED"

\* C6: a step in which a poll cycle receives a history without a MANUAL
\* ASSIGNED event leaves the snapshot map as it is and does not enter
\* storeTicketRecord.
C6_NoAssignmentLeavesSnapshot ==
    [][\A c \in Cycles, h \in Histories :
          (NoManualAssigned(h) /\ HistoryReceived(c, h))
              => (tatTickets' = tatTickets /\ cyc'[c].pc \notin StorePcs)]_vars

\* C6 witness: a cycle has passed a ticket whose history had no assignment,
\* and the snapshot that an earlier cycle stored for it is still there
C6_Witness ==
    \E c \in Cycles :
        /\ cyc[c].pc = "dashGet"
        /\ cyc[c].hist # None
        /\ NoManualAssigned(cyc[c].hist[1])
        /\ tatTickets[101] # None
        /\ tatTickets[101] = lastWritten[101]

AssignmentIndexes(history) ==
    {i \in 1..Len(history) : history[i].action = "MANUAL ASSIGNED"}

\* the MANUAL ASSIGNED event that comes last in the order of delivery
LastDelivered(history) ==
    history[CHOOSE i \in AssignmentIndexes(history) :
                \A j \in AssignmentIndexes(history) : j <= i]

AssignmentTimes(history) ==
    {history[i].createDate.t : i \in AssignmentIndexes(history)}

\* C7: whatever the order of the events, the record handed to
\* storeTicketRecord has the timestamp of the chronologically latest MANUAL
\* ASSIGNED event as its assignedTime (for events with well-formed dates).
C7_LatestAssignmentChronological ==
    \A c \in Cycles :
        (/\ cyc[c].pc = "storeGet"
         /\ \A i \in AssignmentIndexes(cyc[c].hist[1]) :
                cyc[c].hist[1][i].createDate.kind = "str")
        => \A t \in AssignmentTimes(cyc[c].hist[1]) : t <= cyc[c].rec[1].assignedTime

\* the pattern 'assigned to <name>' finds nothing in the remark
YieldsNoName(remark) ==
    \/ remark.isNull
    \/ ~\E i \in 1..(Len(remark.toks) - 1) :
            remark.toks[i] = TokAssigned /\ remark.toks[i + 1] # "<"

\* cycle c receives in this step a history with an assignment (context valid)
ReceivesAssignment(c) ==
    /\ cyc[c].pc = "history"
    /\ cyc'[c] # cyc[c]
    /\ contextValid
    /\ cyc'[c].hist # None
    /\ ~NoManualAssigned(cyc'[c].hist[1])

\* C8: when the remark of the assignment event yields no name (its date being
\* well formed), the record is built with assignedTo = "Unknown" and handed
\* to storeTicketRecord in that step.
C8_MissingAgentDoesNotBlock ==
    [][\A c \in Cycles :
          (/\ ReceivesAssignment(c)
           /\ YieldsNoName(LastDelivered(cyc'[c].hist[1]).remark)
           /\ LastDelivered(cyc'[c].hist[1]).createDate.kind = "str")
          => (/\ cyc'[c].pc = "storeGet"
              /\ cyc'[c].rec[1].assignedTo = "Unknown")]_vars

\* C9: when the date of the assignment event cannot be parsed (its remark
\* being a text), the record is built with assignedTime = now and handed to
\* storeTicketRecord in that step.
C9_UnparsableDateFallsBackToNow ==
    [][\A c \in Cycles :
          (/\ ReceivesAssignment(c)
           /\ LastDelivered(cyc'[c].hist[1]).createDate.kind # "str"
           /\ ~LastDelivered(cyc'[c].hist[1]).remark.isNull)
          => (/\ cyc'[c].pc = "storeGet"
              /\ cyc'[c].rec[1].assignedTime = now)]_vars

\* C10: a poll cycle that ends at its ticket-list request in a valid context
\* (status not ok, rejected fetch, body without a list) leaves the snapshot
\* map, isTracking and the timers as they are.
C10_ListFailureKeepsTracking ==
    [][\A c \in Cycles :
          (cyc[c].pc = "list" /\ cyc'[c].pc \in {"idle", "resume"} /\ contextValid)
          => (/\ tatTickets' = tatTickets
              /\ isTracking' = isTracking
              /\ timers' = timers)]_vars

\* C10 witness: the context is valid, start() has set its timer and nothing
\* is in flight, yet updateDashboard has never written: every poll cycle so
\* far ended at its list request, and the tracker is still tracking
C10_Witness ==
    /\ contextValid
    /\ isTracking
    /\ timers # {}
    /\ \A c \in Cycles : cyc[c].pc = "idle"
    /\ dashboard = None

\* the history request of cycle c fails in this step
HistoryFails(c) ==
    /\ cyc[c].pc = "history"
    /\ cyc'[c] # cyc[c]
    /\ cyc'[c].hist = None

\* C11: a step in which the history request of one ticket fails leaves the
\* snapshot map as it is, and the cycle goes on with the history request of
\* the next ticket of the batch (with updateDashboard after the last one).
C11_HistoryFailureSkipsOneTicket ==
    [][\A c \in Cycles :
          HistoryFails(c)
          => /\ tatTickets' = tatTickets
             /\ IF Tail(cyc[c].queue) # <<>>
                THEN cyc'[c].pc = "history" /\ cyc'[c].queue = Tail(cyc[c].queue)
                ELSE contextValid => cyc'[c].pc = "dashGet"]_vars

\* C11 witness: in one cycle the history request of 101 failed and the record
\* of 102 is in storeTicketRecord, the snapshot of 101 being the one stored
\* before
C11_Witness ==
    \E c \in Cycles :
        /\ cyc[c].pc = "storeGet"
        /\ cyc[c].failed = 101
        /\ cyc[c].rec[1].ticketId = 102
        /\ tatTickets[101] # None
        /\ tatTickets[101] = lastWritten[101]

\* cycle c sends UPDATE_BADGE in this step: the set of updateDashboard
\* resolves and updateBadge is called
EmitsBadge(c) ==
    /\ cyc[c].pc = "dashSet"
    /\ cyc'[c].pc \in {"idle", "resume"}
    /\ contextValid

OverdueInStore(map) == CountUrgency(ObjectValues(map, Tickets), "OVERDUE")

\* C12: the overdue count is sent when no ticket of the batch is left to
\* process, and the count sent is the number of OVERDUE snapshots that the
\* snapshot map holds at that moment.
C12_BadgeCountsStoredOverdue ==
    [][\A c \in Cycles :
          EmitsBadge(c)
          => /\ cyc[c].queue = <<>>
             /\ badge' = Some(OverdueInStore(tatTickets'))]_vars

\* the tracker is tracking and every call of the last poll cycle has resolved
\* or failed: the cycle has returned, the timer is set or start() is about to
\* set it
PollReturned ==
    /\ isTracking
    /\ \A c \in Cycles : cyc[c].pc \in {"idle", "resume"}
    /\ timers # {} \/ PendingStarts # {}

TickCycleRuns == \E c \in Cycles : cyc[c].pc = "list" /\ cyc[c].origin = "tick"

\* C13: while the tracker is tracking, once the calls of a poll cycle have
\* resolved or failed, a tick eventually runs a new poll cycle (unless the
\* tracker is stopped first).
C13_NextTickEventuallyPolls == PollReturned ~> (TickCycleRuns \/ ~isTracking)

\* C13 witness: a tick runs a poll cycle while the tracker is tracking and no
\* cycle before it got as far as the dashboard: they all ended in a failure
C13_Witness ==
    /\ TickCycleRuns
    /\ isTracking
    /\ contextValid
    /\ dashboard = None

\* C14: the disposition log holds at most one record for a ticket and an
\* assignment: no two of its records have the same ticketId and assignedTime.
C14_DisposedOnce ==
    \A i, j \in 1..Len(tatHistory) :
        (/\ tatHistory[i].ticketId = tatHistory[j].ticketId
         /\ tatHistory[i].assignedTime = tatHistory[j].assignedTime) => i = j

\* C15: the log never holds more than HistoryCap records; a write to a log
\* that is at capacity leaves that log without its oldest record and with the
\* record of the writing call at the end; and the records of the new log but
\* the last are records of the log before, unchanged and in their order.
C15_LogCappedOldestEvicted ==
    [][/\ Len(tatHistory') <= HistoryCap
       /\ (tatHistory' # tatHistory /\ Len(tatHistory) = HistoryCap)
          => \E d \in DispSlots :
                /\ disp[d].pc = "setHistory"
                /\ disp'[d].pc = "idle"
                /\ tatHistory' = Append(Tail(tatHistory), disp[d].rec[1])
       /\ \E shift \in {0, 1} :
             /\ Len(tatHistory') - 1 + shift <= Len(tatHistory)
             /\ \A i \in 1..(Len(tatHistory') - 1) :
                    tatHistory'[i] = tatHistory[i + shift]]_vars

\* call d of recordDisposition waits for the snapshot map, which has no entry
\* for its ticketId
AwaitsUntracked(d) ==
    /\ disp[d].pc = "getTickets"
    /\ tatTickets[disp[d].ticketId] = None
    /\ contextValid

\* C16: when the snapshot map has no entry for the ticketId, the call of
\* recordDisposition returns as soon as the map arrives, and that step leaves
\* the disposition log and the snapshot map as they are.
C16_UntrackedDispositionIsNoOp ==
    [][\A d \in DispSlots :
          (AwaitsUntracked(d) /\ disp'[d] # disp[d])
          => /\ disp'[d] = IdleDisp
             /\ tatHistory' = tatHistory
             /\ tatTickets' = tatTickets]_vars

\* C16 witness: a call for an untracked ticket is waiting for the snapshot map
\* while the log already holds the record of an earlier call
C16_Witness ==
    \E d \in DispSlots : AwaitsUntracked(d) /\ Len(tatHistory) = 1 /\ nStored = 1

\* C17: every record of the disposition log has, on its own fields and the
\* SLA hours of the snapshot of its ticket: tatHours = the time from
\* assignedTime to disposedTime in hours (to a tenth), wasOverdue exactly when
\* that tatHours is greater than the SLA hours, and isEscalated exactly when
\* the disposition type is 'ETL'.  (tatHours is in tenths of an hour.)
C17_DispositionRecordFields ==
    \A i \in 1..Len(tatHistory) :
        LET r == tatHistory[i]
            sla == tatTickets[r.ticketId][1].tatHours
        IN  /\ r.tatHours = RoundTenths(r.disposedTime - r.assignedTime)
            /\ r.wasOverdue = (r.tatHours > sla * 10)
            /\ r.isEscalated = (r.dispositionType = "ETL")

\* C18: every snapshot in the store has the urgency that calculateUrgency
\* gives for its own stored tatHours and elapsedHours, and its remainingHours
\* is tatHours minus elapsedHours.  (elapsedHours and remainingHours are in
\* tenths of an hour, that is 4 units of time.)
C18_UrgencyFromStoredFields ==
    \A t \in Tickets :
        tatTickets[t] # None =>
            LET s == tatTickets[t][1]
            IN  /\ s.urgencyLevel = calculateUrgency(s.tatHours, s.elapsedHours * 4).status
                /\ s.remainingHours = s.tatHours * 10 - s.elapsedHours

UrgencyProbed == probe # None /\ probe[1].fn = "calculateUrgency"

\* C19: calculateUrgency gives OVERDUE (rank 1) when remaining < 0, DUE_SOON
\* (rank 2) when 0 <= remaining < a quarter of the SLA, and ON_TRACK (rank 3)
\* when remaining >= a quarter of the SLA; so SLA 72 with 54 h elapsed is
\* ON_TRACK, remaining 0 is DUE_SOON and SLA 72 with 73 h elapsed is OVERDUE.
\* (remaining is counted in units of time; 4 * remaining is compared with
\* the SLA to avoid the division.)
C19_UrgencyPartition ==
    UrgencyProbed =>
        LET p == probe[1]
            sla == p.tatHours * UnitsPerHour
            remaining == sla - p.elapsed
        IN  /\ remaining < 0 => p.out = [status |-> "OVERDUE", sortOrder |-> 1]
            /\ (0 <= remaining /\ 4 * remaining < sla)
                   => p.out = [status |-> "DUE_SOON", sortOrder |-> 2]
            /\ 4 * remaining >= sla => p.out = [status |-> "ON_TRACK", sortOrder |-> 3]
            /\ (p.tatHours = 72 /\ p.elapsed = 54 * UnitsPerHour) => p.out.status = "ON_TRACK"
            /\ remaining = 0 => p.out.status = "DUE_SOON"
            /\ (p.tatHours = 72 /\ p.elapsed = 73 * UnitsPerHour) => p.out.status = "OVERDUE"

\* C19 witness: the evaluation of SLA 72 h with 54 h elapsed, which is exactly
\* at the threshold
C19_Witness ==
    /\ UrgencyProbed
    /\ probe[1].tatHours = 72
    /\ probe[1].elapsed = 54 * UnitsPerHour
    /\ probe[1].out.status = "ON_TRACK"

ClassifyProbed == probe # None /\ probe[1].fn = "matchSOPCategory"

Categories ==
    {"Losses & Debits", "Payments", "COD", "Orders & Planning", "Tech Issues",
     "General"}

\* the keywords that select a rule in matchSOPCategory of the poll cycle
RuleKeywords ==
    {kw_shortage, kw_loss, kw_debit, kw_hardstop, kw_payment, kw_invoice,
     kw_payout, kw_gst, kw_cod, kw_deposit, kw_cash, kw_load, kw_volume,
     kw_manifest, kw_cms, kw_log10, kw_system}

NoKeyword(subject) ==
    \/ subject = None
    \/ \A kw \in RuleKeywords : ~includes(toLowerCase(subject[1]), kw)

\* C20: for every subject, the empty and the missing one included, the
\* classifier (of the poll cycle and of TicketTracker) returns a category of
\* the fixed set with an SLA of 12, 24, 48 or 72 hours, and the classifier of
\* the poll cycle returns General with 48 hours when no keyword matches.
C20_ClassifierTotal ==
    ClassifyProbed =>
        /\ probe[1].out.category \in Categories
        /\ probe[1].out.tat \in SlaHours
        /\ probe[1].outTracker.category \in Categories
        /\ probe[1].outTracker.tat \in SlaHours
        /\ NoKeyword(probe[1].subject)
               => probe[1].out = [category |-> "General", tat |-> 48]

\* C20 witness: the empty subject has been classified as General, 48 hours
C20_Witness ==
    /\ ClassifyProbed
    /\ probe[1].subject = Some(<<>>)
    /\ probe[1].out = [category |-> "General", tat |-> 48]

\* The ordered keyword table of the classification rules: rule number |->
\* keywords, and rule number |-> category
TableKeywords ==
    <<{kw_shortage, kw_loss, kw_debit, kw_hardstop},
      {kw_payment, kw_invoice, kw_payout, kw_gst},
      {kw_cod, kw_deposit, kw_cash, kw_pendency},
      {kw_load, kw_volume, kw_manifest, kw_planning},
      {kw_cms, kw_log10, kw_system, kw_tool, kw_bagging, kw_inactive}>>

TableCategory ==
    <<"Losses & Debits", "Payments", "COD", "Orders & Planning", "Tech Issues">>

TableRules == DOMAIN TableKeywords

MatchesRule(subject, i) ==
    /\ subject # None
    /\ \E kw \in TableKeywords[i] : includes(toLowerCase(subject[1]), kw)

MatchedRules(subject) == {i \in TableRules : MatchesRule(subject, i)}

FirstRule(subject) ==
    CHOOSE i \in MatchedRules(subject) : \A j \in MatchedRules(subject) : i <= j

\* C21: a subject that contains keywords of two rules of the table is
\* classified, by the poll cycle and by the service worker, into the category
\* of the earlier of the rules, and a subject with a keyword of rule 1 and a
\* keyword of rule 3 is Losses & Debits with 72 hours.
C21_FirstMatchWins ==
    ClassifyProbed =>
        /\ Cardinality(MatchedRules(probe[1].subject)) >= 2
               => /\ probe[1].out.category
                         = TableCategory[FirstRule(probe[1].subject)]
                  /\ probe[1].outBackground.category
                         = TableCategory[FirstRule(probe[1].subject)]
        /\ (MatchesRule(probe[1].subject, 1) /\ MatchesRule(probe[1].subject, 3))
               => /\ probe[1].out = [category |-> "Losses & Debits", tat |-> 72]
                  /\ probe[1].outBackground
                         = [category |-> "Losses & Debits", tat |-> 72]

\* the row of the table for a subject: the first rule one of whose keywords
\* the lower-cased subject contains, General with 48 hours when there is none
TableRow(subject) ==
    IF MatchedRules(subject) = {}
    THEN [category |-> "General", tat |-> 48]
    ELSE LET i == FirstRule(subject)
             lower == toLowerCase(subject[1])
         IN  [category |-> TableCategory[i],
              tat |-> CASE i = 1 -> 72
                        [] i = 2 -> IF includes(lower, kw_not_received)
                                       \/ includes(lower, kw_pending)
                                    THEN 12 ELSE 72
                        [] i = 3 -> 24
                        [] i = 4 -> 12
                        [] i = 5 -> 24]

\* C22: for every subject the classifier of the poll cycle returns the first
\* matching row of the table, and the classifiers of TicketTracker and of the
\* service worker return the same as the classifier of the poll cycle.
C22_ClassifierMatchesTable ==
    ClassifyProbed =>
        /\ probe[1].out = TableRow(probe[1].subject)
        /\ probe[1].outTracker = probe[1].out
        /\ probe[1].outBackground = probe[1].out

\* the poll cycle receives, 80 hours after T0, the history of ticket 101 that
\* is the single event MANUAL ASSIGNED at T0
ReceivesSingleAssignment ==
    /\ cyc[1].pc = "history"
    /\ Head(cyc[1].queue) = 101
    /\ taskTitle[101] = Some(subjShortage)
    /\ cyc'[1].hist = Some(<<evAssign0>>)
    /\ now = PollAt80h
    /\ contextValid

\* C23: ticket 101 with the subject "Shortage loss not credited" and the
\* single history event MANUAL ASSIGNED at T0, polled 80 hours after T0, gets
\* the snapshot Losses & Debits, SLA 72 h, elapsed 80.0 h, remaining -8.0 h,
\* OVERDUE, with the assignment instant as the start of the clock, and that
\* snapshot is what the store holds for the ticket once it is written.
C23_EndToEndSnapshot ==
    [][ /\ ReceivesSingleAssignment
            => /\ cyc'[1].pc = "storeGet"
               /\ cyc'[1].rec # None
               /\ cyc'[1].rec[1].ticketId = 101
               /\ cyc'[1].rec[1].sopCategory = "Losses & Debits"
               /\ cyc'[1].rec[1].tatHours = 72
               /\ cyc'[1].rec[1].assignedTime = T0
               /\ cyc'[1].rec[1].elapsedHours = 800
               /\ cyc'[1].rec[1].remainingHours = -80
               /\ cyc'[1].rec[1].urgencyLevel = "OVERDUE"
        /\ (cyc[1].pc = "storeSet" /\ cyc'[1].pc # "storeSet" /\ contextValid)
            => tatTickets'[cyc[1].rec[1].ticketId] = cyc[1].rec ]_vars

\* C23 witness: the store holds that snapshot of ticket 101
C23_Witness ==
    /\ now = PollAt80h
    /\ tatTickets[101] # None
    /\ tatTickets[101][1].assignedTo = "Deepika"
    /\ tatTickets[101][1].assignedTime = T0
    /\ tatTickets[101][1].escalationCount = 0
    /\ tatTickets[101][1].sopCategory = "Losses & Debits"
    /\ tatTickets[101][1].elapsedHours = 800
    /\ tatTickets[101][1].remainingHours = -80
    /\ tatTickets[101][1].urgencyLevel = "OVERDUE"

\* the positions of the escalation events (DISPOSED with substatus ETL) of a
\* history
EscalationIndexes(history) ==
    {i \in 1..Len(history) :
        history[i].action = "DISPOSED" /\ history[i].substatus = "ETL"}

LastEscalation(history) ==
    history[CHOOSE i \in EscalationIndexes(history) :
                \A j \in EscalationIndexes(history) : j <= i]

\* C24: the snapshot built from a history has as escalationCount the number
\* of events with action DISPOSED and substatus ETL, isEscalated exactly when
\* that number is positive, and as lastEscalatedTime the timestamp of the last
\* such event, or null when there is none.
C24_EscalationFields ==
    (cyc[1].pc = "storeGet" /\ cyc[1].hist # None) =>
        LET history == cyc[1].hist[1]
            rec == cyc[1].rec[1]
            n == Cardinality(EscalationIndexes(history))
        IN  /\ rec.escalationCount = n
            /\ rec.isEscalated <=> n > 0
            /\ rec.lastEscalatedTime =
                   IF n = 0 THEN None
                   ELSE Some(LastEscalation(history).createDate.t)

\* C24 witness: a snapshot of a history with two escalations, the last at T1,
\* and a later DISPOSED event that is not an escalation
C24_Witness ==
    /\ cyc[1].pc = "storeGet"
    /\ cyc[1].hist = Some(<<evEscalated0, evAssign0, evEscalated, evResolved>>)
    /\ cyc[1].rec[1].escalationCount = 2
    /\ cyc[1].rec[1].isEscalated
    /\ cyc[1].rec[1].lastEscalatedTime = Some(T1)

\* storeTicketRecord of the invocation in slot c completes: its storage set
\* resolves
StoreCompletes(c) ==
    /\ cyc[c].pc = "storeSet"
    /\ cyc'[c].pc # "storeSet"
    /\ contextValid

\* C25: when storeTicketRecord for a ticket completes, the entry of the ticket
\* in the snapshot map is the new snapshot and the entry of every other
\* ticket is what it was before.
C25_StoreChangesOneEntry ==
    [][\A c \in Cycles :
          StoreCompletes(c) =>
              /\ tatTickets'[cyc[c].rec[1].ticketId] = cyc[c].rec
              /\ \A t \in Tickets \ {cyc[c].rec[1].ticketId} :
                     tatTickets'[t] = tatTickets[t]]_vars

AgentStatsProbed == probe # None /\ probe[1].fn = "getAgentStats"

RecordsOf(log, agentEmail) == {i \in 1..Len(log) : log[i].agent = agentEmail}

\* v is num / den rounded to a whole number
IsRounded(v, num, den) ==
    /\ 2 * den * v - 2 * num <= den
    /\ 2 * num - 2 * den * v <= den

\* C26: the rollup of an agent has as totalTickets the number of the agent's
\* records in the log, as escalated and overdueCount the numbers of those
\* with isEscalated and with wasOverdue, as escalationRate and overdueRate
\* the rounded percentages of those numbers, as avgTAT the mean of tatHours
\* (to a tenth of an hour), and an agent without records gets a rollup in
\* which escalationRate, avgTAT and overdueRate are present and 0 as well.
C26_AgentRollup ==
    AgentStatsProbed =>
        LET log == probe[1].log
            out == probe[1].out
            mine == RecordsOf(log, probe[1].agent)
            n == Cardinality(mine)
            esc == Cardinality({i \in mine : log[i].isEscalated})
            over == Cardinality({i \in mine : log[i].wasOverdue})
            tat == SumTatHours(SelectSeq(log, LAMBDA r : r.agent = probe[1].agent))
        IN  /\ out.totalTickets = n
            /\ out.escalated = esc
            /\ out.overdueCount = over
            /\ n > 0 =>
                   /\ IsRounded(out.escalationRate, 100 * esc, n)
                   /\ IsRounded(out.overdueRate, 100 * over, n)
                   /\ IsRounded(out.avgTAT, tat, n)
            /\ n = 0 =>
                   /\ out.escalationRate = 0
                   /\ out.avgTAT = 0
                   /\ "overdueRate" \in DOMAIN out
                   /\ out.overdueRate = 0

AgentsOf(log) == {log[i].agent : i \in 1..Len(log)}

RECURSIVE SumTotalTickets(_)
SumTotalTickets(allStats) ==
    IF allStats = <<>> THEN 0
    ELSE Head(allStats).totalTickets + SumTotalTickets(Tail(allStats))

\* getAllAgentsStats returns in this step
AllStatsReturns ==
    /\ probe # None
    /\ probe[1].fn = "getAllAgentsStats"
    /\ probe[1].pc # "done"
    /\ probe'[1].pc = "done"

\* the rollups have one entry for each agent of the log and their totalTickets
\* sum to the number of records of the log
RollupsCover(allStats, log) ==
    /\ Len(allStats) = Cardinality(AgentsOf(log))
    /\ {allStats[i].agent : i \in 1..Len(allStats)} = AgentsOf(log)
    /\ SumTotalTickets(allStats) = Len(log)

\* C27: what getAllAgentsStats returns has exactly one rollup for each agent
\* of the disposition log (the log as the call read it, or the log in storage
\* when it returns), the totalTickets of the rollups sum to the number of
\* records of that log, and the rollups are in descending order of
\* escalationRate.
C27_AllAgentsRollups ==
    [][AllStatsReturns =>
          LET allStats == probe'[1].allStats
          IN  /\ \/ RollupsCover(allStats, probe'[1].log)
                 \/ RollupsCover(allStats, tatHistory')
              /\ \A i \in 1..(Len(allStats) - 1) :
                     allStats[i].escalationRate >= allStats[i + 1].escalationRate
       ]_vars

\* C28: in every state reached by calls of start() and stop(), calls made
\* during the initial fetch included, at most one interval timer is active,
\* and none is active while isTracking is false.
C28_AtMostOneTimer ==
    /\ Cardinality(timers) <= 1
    /\ ~isTracking => timers = {}

StoredTickets == {t \in Tickets : tatTickets[t] # None}

\* a write of the snapshot map by someone else than the reconciliation of
\* ticket t
WrittenForOther(t) ==
    \A c \in Cycles :
        (cyc[c].pc = "storeSet" /\ cyc'[c].pc # "storeSet")
            => cyc[c].rec[1].ticketId # t

\* C29: no step removes a ticket ID from the snapshot map, the snapshot of a
\* ticket stays what it is until that ticket is reconciled again, and every
\* snapshot in the map is counted in the total that updateDashboard computes.
C29_SnapshotsOnlyGrow ==
    [][/\ \A t \in StoredTickets :
              /\ tatTickets'[t] # None
              /\ WrittenForOther(t) => tatTickets'[t] = tatTickets[t]
       /\ \A c \in Cycles :
              (cyc[c].pc = "dashGet" /\ cyc'[c].pc = "dashSet")
                  => cyc'[c].write[1].tatStats.total = Cardinality(StoredTickets)
      ]_vars

\* a poll cycle that reached updateDashboard ends: its storage set resolves
DashboardWritten(c) ==
    /\ cyc[c].pc = "dashSet"
    /\ cyc'[c].pc # "dashSet"
    /\ contextValid

\* C30: when a poll cycle that reached updateDashboard ends, trackedTickets
\* holds exactly the records of the snapshot map, and tatStats has
\* total = overdue + dueSoon + onTrack = the number of entries of the map;
\* also when the storage accesses of two cycles interleave.
C30_DashboardMatchesStore ==
    [][\A c \in Cycles :
          DashboardWritten(c) =>
              /\ dashboard' # None
              /\ dashboard'[1].trackedTickets = ObjectValues(tatTickets', Tickets)
              /\ dashboard'[1].tatStats.total
                     = dashboard'[1].tatStats.overdue
                         + dashboard'[1].tatStats.dueSoon
                         + dashboard'[1].tatStats.onTrack
              /\ dashboard'[1].tatStats.total
                     = Cardinality({t \in Tickets : tatTickets'[t] # None})
      ]_vars

====
